---------------------------- MODULE Spec2Model ----------------------------
(***************************************************************************)
(* rainfrog: the modal (vim-style) edit engine of src/vim.rs, driven by    *)
(* Editor::transition_vim_state of src/components/editor.rs, over the      *)
(* editable text buffer (rat_text's TextAreaState, consumed through the    *)
(* interface of spec.md section 6).                                        *)
(*                                                                         *)
(* The buffer is a sequence of one-character strings; a position is an     *)
(* offset 0..Len(text) into it ("\n" is a character, so an offset and a    *)
(* (row, column) pair name the same place).                                *)
(***************************************************************************)
EXTENDS Integers, Sequences, FiniteSets, TLC

\* ------------------------------------------------------------------ bounds

\* Longest buffer the model explores; a key that would grow the buffer past it
\* is not offered.
MaxLen == 2
\* Undo steps kept (rat_text keeps 99; older steps are dropped).
MaxUndo == 1
\* Rows of the text area's page (its rendered height).
PageLen == 2

\* ------------------------------------------------------------- key events

NONE == "NONE"
CONTROL == "CONTROL"
SHIFT == "SHIFT"
ALT == "ALT"

\* KeyEvent { code, modifiers, .. }: KeyCode::Char(c) is the one-character
\* string c, every other KeyCode its name.
Key(c, m) == [code |-> c, mods |-> m]

\* The characters KeyCode::Char carries in the model.
CharCodes ==
  { "h", "j", "k", "l", "w", "e", "b", "^", "0", "$", "D", "C", "p", "u", "r",
    "x", "X", "i", "a", "A", "o", "O", "I", "y", "d", "f", "v", "V", "g", "G",
    "c", "S", "q", "z", "E", " " }

IsChar(code) == code \in CharCodes

\* Keys offered in Normal, Visual and OperatorPending: the keys the match of
\* Vim::transition and of Editor::transition_vim_state name (u and Ctrl-r apart,
\* see UndoKeys), and z, which no arm names.
CommandKeys ==
  { Key(c, NONE) : c \in CharCodes \ {" ", "f", "E", "u", "q"} }
    \cup { Key(c, CONTROL) : c \in {"e", "y", "d", "u", "f", "b", "c"} }
    \cup { Key(c, NONE) : c \in {"Left", "PageUp", "PageDown", "Esc", "Tab"} }
    \cup { Key("Enter", ALT), Key("Enter", CONTROL), Key("Tab", SHIFT) }

\* Keys offered in Insert and Replace: the bound keys, and a few typed ones (each
\* typed character widens the buffer's alphabet: "e" and "\n" here, so that a
\* buffer holds words, the line break being their white space, on several lines).
TypingKeys ==
  { Key("e", NONE), Key("Enter", NONE), Key("Esc", NONE),
    Key("c", CONTROL), Key("e", CONTROL), Key("E", SHIFT), Key("Enter", SHIFT),
    Key("Backspace", NONE), Key("Backspace", ALT),
    Key("Left", SHIFT), Key("Up", SHIFT), Key("Down", SHIFT),
    Key("Left", NONE), Key("Enter", ALT), Key("Enter", CONTROL) }

Keys == CommandKeys \cup TypingKeys

\* What the system clipboard may hand to `p` (Clipboard::get_text); <<>> stands
\* for an empty or unavailable clipboard.
ClipTexts == { <<>>, <<"e">> }

\* ------------------------------------------------------------------ modes

Normal == [m |-> "Normal", c |-> ""]
Insert == [m |-> "Insert", c |-> ""]
Visual == [m |-> "Visual", c |-> ""]
Replace == [m |-> "Replace", c |-> ""]
Operator(c) == [m |-> "Operator", c |-> c]

IsOperator(mode) == mode.m = "Operator"


\* ------------------------------------------------- the editable text buffer
\* TextAreaState (rat_text), as Vim::transition uses it.  A buffer is
\*   [text, cursor, anchor, undo, redo, undo_count, voff]
\* undo and redo hold one entry per primitive edit: the text, cursor and anchor
\* before it and after it; undo keeps the last undo_count entries.

Min(a, b) == IF a <= b THEN a ELSE b
Max(a, b) == IF a >= b THEN a ELSE b

IsWs(c) == c \in {" ", "\n"}

EmptyText(undo_count) ==
  [text |-> <<>>, cursor |-> 0, anchor |-> 0, undo |-> <<>>, redo |-> <<>>,
   undo_count |-> undo_count, voff |-> 0]

RemoveRange(t, a, b) == SubSeq(t, 1, a) \o SubSeq(t, b + 1, Len(t))
InsertAt(t, p, s) == SubSeq(t, 1, p) \o s \o SubSeq(t, p + 1, Len(t))

\* The offset of the start (end) of the line holding offset p.
LineStart(t, p) ==
  CHOOSE i \in 0..p : (i = 0 \/ t[i] = "\n") /\ \A j \in (i + 1)..p : t[j] # "\n"
LineEnd(t, p) ==
  CHOOSE i \in p..Len(t) :
    (i = Len(t) \/ t[i + 1] = "\n") /\ \A j \in (p + 1)..i : t[j] # "\n"

\* The row of offset p: the number of line breaks before it.
Row(t, p) == Cardinality({ j \in 1..p : t[j] = "\n" })

selection(ta) ==
  [start |-> Min(ta.anchor, ta.cursor), end |-> Max(ta.anchor, ta.cursor)]
has_selection(ta) == ta.anchor # ta.cursor
selected_text(ta) == SubSeq(ta.text, selection(ta).start + 1, selection(ta).end)
set_selection(ta, a, c) == [ta EXCEPT !.anchor = a, !.cursor = c]
set_cursor(ta, p, extend) ==
  [ta EXCEPT !.cursor = p, !.anchor = IF extend THEN @ ELSE p]

\* Left and right step over a line break onto the neighbouring line.
move_left(ta, extend) == set_cursor(ta, Max(ta.cursor - 1, 0), extend)
move_right(ta, extend) == set_cursor(ta, Min(ta.cursor + 1, Len(ta.text)), extend)

move_down(ta, extend) ==
  LET t == ta.text
      le == LineEnd(t, ta.cursor)
      col == ta.cursor - LineStart(t, ta.cursor)
  IN IF le = Len(t) THEN set_cursor(ta, ta.cursor, extend)
     ELSE set_cursor(ta, Min(le + 1 + col, LineEnd(t, le + 1)), extend)

move_up(ta, extend) ==
  LET t == ta.text
      ls == LineStart(t, ta.cursor)
      col == ta.cursor - ls
  IN IF ls = 0 THEN set_cursor(ta, ta.cursor, extend)
     ELSE set_cursor(ta, Min(LineStart(t, ls - 1) + col, ls - 1), extend)

\* Line start is the first non-blank of the line, or column 0 when the cursor
\* is already there (or the line is blank).
move_to_line_start(ta, extend) ==
  LET t == ta.text
      ls == LineStart(t, ta.cursor)
      le == LineEnd(t, ta.cursor)
      nb == { i \in ls..(le - 1) : t[i + 1] # " " }
      first == IF nb = {} THEN ls ELSE CHOOSE i \in nb : \A j \in nb : i <= j
  IN set_cursor(ta, IF first # ta.cursor THEN first ELSE ls, extend)

move_to_line_end(ta, extend) == set_cursor(ta, LineEnd(ta.text, ta.cursor), extend)
move_to_start(ta, extend) == set_cursor(ta, 0, extend)
move_to_end(ta, extend) == set_cursor(ta, Len(ta.text), extend)

RECURSIVE SkipFwd(_, _, _)
SkipFwd(t, p, ws) ==
  IF p < Len(t) /\ (IsWs(t[p + 1]) = ws) THEN SkipFwd(t, p + 1, ws) ELSE p
RECURSIVE SkipBack(_, _, _)
SkipBack(t, p, ws) ==
  IF p > 0 /\ (IsWs(t[p]) = ws) THEN SkipBack(t, p - 1, ws) ELSE p

\* Word queries: they return a position and move nothing.
next_word_end(t, p) == SkipFwd(t, SkipFwd(t, p, TRUE), FALSE)
prev_word_start(t, p) == SkipBack(t, SkipBack(t, p, TRUE), FALSE)
prev_word_end(t, p) == SkipBack(t, p, TRUE)

move_to_next_word(ta, extend) ==
  set_cursor(ta, next_word_end(ta.text, ta.cursor), extend)

\* One primitive edit: the new text, cursor and anchor, and its undo entry.
Snap(ta) == [text |-> ta.text, cursor |-> ta.cursor, anchor |-> ta.anchor]
PushUndo(u, e, undo_count) ==
  LET all == Append(u, e)
  IN SubSeq(all, Max(1, Len(all) - undo_count + 1), Len(all))
Edit(ta, nt, nc, na) ==
  [ta EXCEPT !.text = nt, !.cursor = nc, !.anchor = na,
             !.undo = PushUndo(@, [before |-> Snap(ta),
                                   after |-> [text |-> nt, cursor |-> nc, anchor |-> na]],
                               ta.undo_count),
             !.redo = <<>>]

\* Where offset p lands once [a, b) is removed.
Shrink(p, a, b) == IF p <= a THEN p ELSE IF p >= b THEN p - (b - a) ELSE a

delete_range(ta, r) ==
  IF r.start = r.end THEN ta
  ELSE Edit(ta, RemoveRange(ta.text, r.start, r.end),
            Shrink(ta.cursor, r.start, r.end), Shrink(ta.anchor, r.start, r.end))

RawInsert(ta, s) ==
  Edit(ta, InsertAt(ta.text, ta.cursor, s), ta.cursor + Len(s), ta.cursor + Len(s))

insert_str(ta, s) ==
  RawInsert(IF has_selection(ta) THEN delete_range(ta, selection(ta)) ELSE ta, s)
insert_char(ta, c) == insert_str(ta, <<c>>)

\* A line break, then the leading blanks of the line it was typed on.
insert_newline(ta) ==
  LET a == insert_char(ta, "\n")
      t == a.text
      ls == LineStart(t, a.cursor - 1)
      stop == { i \in ls..(a.cursor - 1) : i = a.cursor - 1 \/ t[i + 1] # " " }
      n == (CHOOSE i \in stop : \A j \in stop : i <= j) - ls
  IN IF n = 0 THEN a ELSE RawInsert(a, [i \in 1..n |-> " "])

delete_prev_char(ta) ==
  IF has_selection(ta) THEN delete_range(ta, selection(ta))
  ELSE IF ta.cursor = 0 THEN ta
  ELSE delete_range(ta, [start |-> ta.cursor - 1, end |-> ta.cursor])

delete_next_char(ta) ==
  IF has_selection(ta) THEN delete_range(ta, selection(ta))
  ELSE IF ta.cursor = Len(ta.text) THEN ta
  ELSE delete_range(ta, [start |-> ta.cursor, end |-> ta.cursor + 1])

delete_prev_word(ta) ==
  IF has_selection(ta) THEN delete_range(ta, selection(ta))
  ELSE LET e == prev_word_end(ta.text, ta.cursor)
           s == prev_word_start(ta.text, ta.cursor)
       IN delete_range(ta, [start |-> IF e # ta.cursor THEN e ELSE s,
                            end |-> ta.cursor])

undo(ta) ==
  IF ta.undo = <<>> THEN ta
  ELSE LET e == ta.undo[Len(ta.undo)]
       IN [ta EXCEPT !.text = e.before.text, !.cursor = e.before.cursor,
                     !.anchor = e.before.anchor,
                     !.undo = SubSeq(@, 1, Len(@) - 1), !.redo = Append(@, e)]

redo(ta) ==
  IF ta.redo = <<>> THEN ta
  ELSE LET e == ta.redo[Len(ta.redo)]
       IN [ta EXCEPT !.text = e.after.text, !.cursor = e.after.cursor,
                     !.anchor = e.after.anchor,
                     !.redo = SubSeq(@, 1, Len(@) - 1), !.undo = Append(@, e)]

\* The clip register is written and never read by the engine (`p` reads the
\* system clipboard), so cut and copy keep only their effect on the buffer.
copy_to_clip(ta) == ta
cut_to_clip(ta) == delete_range(ta, selection(ta))

\* The vertical scroll: voff is the first row shown, and scrolling stops where
\* the last page of the buffer is shown.
vertical_page == PageLen
Lines(t) == Row(t, Len(t)) + 1
scroll_down(ta, n) ==
  [ta EXCEPT !.voff = Max(@, Min(@ + n, Max(0, Lines(ta.text) - vertical_page)))]
scroll_up(ta, n) == [ta EXCEPT !.voff = Max(@ - n, 0)]

\* ------------------------------------------------------------ Vim (vim.rs)
\* The engine state is [mode, pending, tx]: pending is <<>> or <<key>>, tx says
\* whether command_tx holds a sender.

Nop == [kind |-> "Nop"]
TMode(mode) == [kind |-> "Mode", mode |-> mode]
Pending(input) == [kind |-> "Pending", key |-> input]

VimNew(mode) == [mode |-> mode, pending |-> <<>>, tx |-> FALSE]
with_pending(v, input) == [mode |-> v.mode, pending |-> <<input>>, tx |-> FALSE]
vim_register_action_handler(v, tx) == [v EXCEPT !.tx = tx]

CopyData(text) == [action |-> "CopyData", text |-> text]

\* The actions the call puts on the channel: none without a sender.
send_copy_action_with_text(v, text) == IF v.tx THEN <<CopyData(text)>> ELSE <<>>

\* An arm of the match either falls through to the pending operator or returns.
Fall(ta) == [fall |-> TRUE, tr |-> Nop, ta |-> ta, out |-> <<>>]
Ret(tr, ta, out) == [fall |-> FALSE, tr |-> tr, ta |-> ta, out |-> out]

Is(input, c) == input.code = c
IsN(input, c) == input.code = c /\ input.mods = NONE
IsC(input, c) == input.code = c /\ input.mods = CONTROL

collapse(ta) == set_selection(ta, ta.cursor, ta.cursor)

\* move_to_line_start(false); set_selection(cursor, cursor); move_to_line_end(true)
select_line(ta) == move_to_line_end(collapse(move_to_line_start(ta, FALSE)), TRUE)

\* D and C: select to the line end, report, delete, collapse.
delete_to_line_end(v, ta, mode) ==
  LET t1 == move_to_line_end(ta, TRUE)
      t2 == delete_range(t1, selection(t1))
  IN Ret(TMode(mode), collapse(t2), send_copy_action_with_text(v, selected_text(t1)))

\* x, X, S and the Visual c: report the selection and cut it.
report_and_cut(v, ta, mode) ==
  Ret(TMode(mode), cut_to_clip(ta), send_copy_action_with_text(v, selected_text(ta)))

\* Lines 128-160: the motions.
motion_arm(v, input, ta) ==
  LET extend_selection == v.mode # Normal
  IN IF Is(input, "h") \/ Is(input, "Left") THEN Fall(move_left(ta, extend_selection))
     ELSE IF Is(input, "j") \/ Is(input, "Down") THEN Fall(move_down(ta, extend_selection))
     ELSE IF Is(input, "k") \/ Is(input, "Up") THEN Fall(move_up(ta, extend_selection))
     ELSE IF Is(input, "l") \/ Is(input, "Right") THEN Fall(move_right(ta, extend_selection))
     ELSE IF Is(input, "w") THEN Fall(move_to_next_word(ta, extend_selection))
     ELSE IF IsN(input, "e") /\ IsOperator(v.mode)
       THEN Fall(move_to_next_word(ta, extend_selection))
     \* next_word_end(cursor) and prev_word_start(cursor) are queries: their
     \* result is dropped and nothing moves.
     ELSE IF IsN(input, "e") THEN Fall(ta)
     ELSE IF IsN(input, "b") THEN Fall(ta)
     ELSE IF Is(input, "^") THEN Fall(move_to_line_start(ta, extend_selection))
     ELSE IF Is(input, "0") THEN Fall(move_to_line_start(ta, extend_selection))
     ELSE Fall(move_to_line_end(ta, extend_selection))

IsMotionArm(input) ==
  \/ input.code \in {"h", "Left", "j", "Down", "k", "Up", "l", "Right", "w", "^", "0", "$"}
  \/ IsN(input, "e")
  \/ IsN(input, "b")

\* Lines 161-264: the edits and the keys that enter Insert and Replace.
edit_arm(v, input, ta, paste) ==
  IF Is(input, "D") THEN delete_to_line_end(v, ta, Normal)
  ELSE IF Is(input, "C") THEN delete_to_line_end(v, ta, Insert)
  ELSE IF Is(input, "p") THEN
    LET t1 == delete_range(ta, selection(ta))
    IN Ret(TMode(Normal), IF paste = <<>> THEN t1 ELSE insert_str(t1, paste), <<>>)
  ELSE IF IsN(input, "u") THEN Ret(TMode(Normal), undo(ta), <<>>)
  ELSE IF IsC(input, "r") THEN Ret(TMode(Normal), redo(ta), <<>>)
  ELSE IF IsN(input, "r") THEN Ret(TMode(Replace), ta, <<>>)
  ELSE IF Is(input, "x") THEN
    report_and_cut(v, IF ~has_selection(ta) THEN move_right(ta, TRUE) ELSE ta, Normal)
  ELSE IF Is(input, "X") THEN
    report_and_cut(v, IF v.mode = Visual
                        THEN move_to_line_end(move_to_line_start(ta, FALSE), TRUE)
                        ELSE move_left(ta, TRUE), Normal)
  ELSE IF Is(input, "i") THEN Ret(TMode(Insert), collapse(ta), <<>>)
  ELSE IF IsN(input, "a") /\ v.mode \in {Operator("d"), Operator("y")}
    \* word_start(cursor) is a query: only the step right moves the cursor.
    THEN Ret(Nop, move_right(collapse(ta), FALSE), <<>>)
  ELSE IF Is(input, "a") THEN Ret(TMode(Insert), move_right(collapse(ta), FALSE), <<>>)
  ELSE IF Is(input, "A") THEN Ret(TMode(Insert), move_to_line_end(collapse(ta), FALSE), <<>>)
  ELSE IF Is(input, "o") THEN
    Ret(TMode(Insert), insert_newline(move_to_line_end(ta, FALSE)), <<>>)
  ELSE IF Is(input, "O") THEN
    Ret(TMode(Insert), move_up(insert_newline(move_to_line_start(ta, FALSE)), FALSE), <<>>)
  ELSE Ret(TMode(Insert), move_to_line_start(collapse(ta), FALSE), <<>>)

IsEditArm(input) ==
  \/ input.code \in {"D", "C", "p", "x", "X", "i", "a", "A", "o", "O", "I"}
  \/ IsN(input, "u")
  \/ IsC(input, "r")
  \/ IsN(input, "r")

\* Lines 265-282: the scroll keys.
scroll_arm(input, ta) ==
  IF IsC(input, "e") THEN Fall(scroll_down(ta, 1))
  ELSE IF IsC(input, "y") THEN Fall(scroll_up(ta, 1))
  ELSE IF IsC(input, "d") THEN Fall(scroll_down(ta, vertical_page \div 2))
  ELSE IF IsC(input, "u") THEN Fall(scroll_up(ta, vertical_page \div 2))
  ELSE IF IsC(input, "f") \/ Is(input, "PageDown") THEN Fall(scroll_down(ta, vertical_page))
  ELSE Fall(scroll_up(ta, vertical_page))

IsScrollArm(input) ==
  \/ \E c \in {"e", "y", "d", "u", "f", "b"} : IsC(input, c)
  \/ input.code \in {"PageDown", "PageUp"}

IsPendingG(v) == v.pending # <<>> /\ IsN(v.pending[1], "g")

\* mode_arm with Ctrl-c missing from the arm that leaves Visual.
mode_arm_visual_ignores_ctrl_c(v, input, ta) ==
  LET extend_selection == v.mode # Normal
  IN IF IsN(input, "v") /\ v.mode = Normal THEN Ret(TMode(Visual), move_right(ta, TRUE), <<>>)
     ELSE IF IsN(input, "V") /\ v.mode = Normal THEN Ret(TMode(Visual), select_line(ta), <<>>)
     ELSE IF (Is(input, "Esc") \/ IsN(input, "v")) /\ v.mode = Visual
       THEN Ret(TMode(Normal), collapse(ta), <<>>)
     ELSE IF IsN(input, "g") /\ IsPendingG(v) THEN Fall(move_to_start(ta, extend_selection))
     ELSE IF IsN(input, "G") THEN Fall(move_to_end(ta, extend_selection))
     ELSE IF IsChar(input.code) /\ input.mods = NONE /\ v.mode = Operator(input.code)
       THEN Fall(select_line(ta))
     ELSE IF input.code \in {"y", "d", "c"} /\ input.mods = NONE /\ v.mode = Normal
       THEN Ret(TMode(Operator(input.code)), ta, <<>>)
     ELSE IF IsN(input, "y") /\ v.mode = Visual THEN
       IF has_selection(ta)
         THEN Ret(TMode(Normal), copy_to_clip(ta),
                  send_copy_action_with_text(v, selected_text(ta)))
         ELSE Ret(TMode(Normal), ta, <<>>)
     ELSE IF IsN(input, "d") /\ v.mode = Visual THEN
       Ret(TMode(Normal), IF has_selection(ta) THEN cut_to_clip(ta) ELSE ta, <<>>)
     ELSE IF IsN(input, "c") /\ v.mode = Visual THEN
       IF has_selection(ta) THEN report_and_cut(v, ta, Insert)
       ELSE Ret(TMode(Insert), ta, <<>>)
     ELSE IF IsN(input, "S") THEN report_and_cut(v, select_line(ta), Insert)
     ELSE IF Is(input, "Esc") THEN Ret(TMode(Normal), collapse(ta), <<>>)
     ELSE Ret(Pending(input), ta, <<>>)

\* Lines 283-352: Visual, gg and G, the operators, S, Esc, and the catch-all.
mode_arm(v, input, ta) ==
  LET extend_selection == v.mode # Normal
  IN IF IsN(input, "v") /\ v.mode = Normal THEN Ret(TMode(Visual), move_right(ta, TRUE), <<>>)
     ELSE IF IsN(input, "V") /\ v.mode = Normal THEN Ret(TMode(Visual), select_line(ta), <<>>)
     ELSE IF (Is(input, "Esc") \/ IsC(input, "c") \/ IsN(input, "v")) /\ v.mode = Visual
       THEN Ret(TMode(Normal), collapse(ta), <<>>)
     ELSE IF IsN(input, "g") /\ IsPendingG(v) THEN Fall(move_to_start(ta, extend_selection))
     ELSE IF IsN(input, "G") THEN Fall(move_to_end(ta, extend_selection))
     ELSE IF IsChar(input.code) /\ input.mods = NONE /\ v.mode = Operator(input.code)
       THEN Fall(select_line(ta))
     ELSE IF input.code \in {"y", "d", "c"} /\ input.mods = NONE /\ v.mode = Normal
       THEN Ret(TMode(Operator(input.code)), ta, <<>>)
     ELSE IF IsN(input, "y") /\ v.mode = Visual THEN
       IF has_selection(ta)
         THEN Ret(TMode(Normal), copy_to_clip(ta),
                  send_copy_action_with_text(v, selected_text(ta)))
         ELSE Ret(TMode(Normal), ta, <<>>)
     ELSE IF IsN(input, "d") /\ v.mode = Visual THEN
       Ret(TMode(Normal), IF has_selection(ta) THEN cut_to_clip(ta) ELSE ta, <<>>)
     ELSE IF IsN(input, "c") /\ v.mode = Visual THEN
       IF has_selection(ta) THEN report_and_cut(v, ta, Insert)
       ELSE Ret(TMode(Insert), ta, <<>>)
     ELSE IF IsN(input, "S") THEN report_and_cut(v, select_line(ta), Insert)
     ELSE IF Is(input, "Esc") THEN Ret(TMode(Normal), collapse(ta), <<>>)
     ELSE Ret(Pending(input), ta, <<>>)

\* Lines 127-353: the match of Normal, Visual and Operator, arm by arm.
command_match(v, input, ta, paste) ==
  IF IsMotionArm(input) THEN motion_arm(v, input, ta)
  ELSE IF IsEditArm(input) THEN edit_arm(v, input, ta, paste)
  ELSE IF IsScrollArm(input) THEN scroll_arm(input, ta)
  ELSE mode_arm(v, input, ta)

\* pending_operator with d copying where it should cut.
pending_operator_d_copies(v, ta) ==
  IF v.mode \in {Operator("y"), Operator("d")}
    THEN Ret(TMode(Normal), copy_to_clip(ta), send_copy_action_with_text(v, selected_text(ta)))
  ELSE IF v.mode = Operator("c") THEN report_and_cut(v, ta, Insert)
  ELSE Ret(Nop, ta, <<>>)

\* Lines 355-373: handle the pending operator.
pending_operator(v, ta) ==
  IF v.mode = Operator("y")
    THEN Ret(TMode(Normal), copy_to_clip(ta), send_copy_action_with_text(v, selected_text(ta)))
  ELSE IF v.mode = Operator("d") THEN report_and_cut(v, ta, Normal)
  ELSE IF v.mode = Operator("c") THEN report_and_cut(v, ta, Insert)
  ELSE Ret(Nop, ta, <<>>)

\* The character a key types: KeyCode::Char(c) and Enter, whatever the modifiers.
TypedChar(input) ==
  IF IsChar(input.code) THEN <<input.code>>
  ELSE IF input.code = "Enter" THEN <<"\n">>
  ELSE <<>>

\* replace_mode with delete_next_char outside the test for a character.
replace_mode_always_deletes(input, ta) ==
  IF Is(input, "Esc") \/ IsC(input, "c") THEN Ret(TMode(Normal), ta, <<>>)
  ELSE LET c == TypedChar(input)
           t1 == delete_next_char(ta)
       IN Ret(TMode(Normal), IF c # <<>> THEN insert_char(t1, c[1]) ELSE t1, <<>>)

\* Lines 375-393.
replace_mode(input, ta) ==
  IF Is(input, "Esc") \/ IsC(input, "c") THEN Ret(TMode(Normal), ta, <<>>)
  ELSE LET c == TypedChar(input)
       IN Ret(TMode(Normal),
              IF c # <<>> THEN insert_char(delete_next_char(ta), c[1]) ELSE ta, <<>>)

\* insert_mode with the return of the Esc arm missing: it ends in Nop.
insert_mode_esc_falls_through(input, ta) ==
  IF Is(input, "Esc") \/ IsC(input, "c") THEN Ret(Nop, ta, <<>>)
  ELSE IF IsN(input, "Backspace") THEN Ret(Nop, delete_prev_char(ta), <<>>)
  ELSE IF input = Key("Backspace", ALT) THEN Ret(Nop, delete_prev_word(ta), <<>>)
  ELSE IF input.mods = SHIFT THEN
    IF input.code = "Up" THEN Ret(Nop, scroll_up(ta, vertical_page), <<>>)
    ELSE IF input.code = "Down" THEN Ret(Nop, scroll_down(ta, vertical_page), <<>>)
    ELSE Ret(Nop, ta, <<>>)
  ELSE LET c == TypedChar(input)
       IN Ret(Nop, IF c # <<>> THEN insert_char(ta, c[1]) ELSE ta, <<>>)

\* Lines 394-440.  Tab and Shift+Tab (insert_tab, insert_backtab) are not offered
\* in Insert: a tab stop is wider than the buffers explored.
insert_mode(input, ta) ==
  IF Is(input, "Esc") \/ IsC(input, "c") THEN Ret(TMode(Normal), ta, <<>>)
  ELSE IF IsN(input, "Backspace") THEN Ret(Nop, delete_prev_char(ta), <<>>)
  ELSE IF input = Key("Backspace", ALT) THEN Ret(Nop, delete_prev_word(ta), <<>>)
  ELSE IF input.mods = SHIFT THEN
    \* Shift+Left and Shift+Right call word queries; Up and Down scroll a page;
    \* every other key with Shift matches here and does nothing.
    IF input.code = "Up" THEN Ret(Nop, scroll_up(ta, vertical_page), <<>>)
    ELSE IF input.code = "Down" THEN Ret(Nop, scroll_down(ta, vertical_page), <<>>)
    ELSE Ret(Nop, ta, <<>>)
  ELSE LET c == TypedChar(input)
       IN Ret(Nop, IF c # <<>> THEN insert_char(ta, c[1]) ELSE ta, <<>>)

\* transition with the return of the Nop arm (a in d or y) missing: the arm
\* runs on into the operator dispatch.
transition_nop_falls_through(v, input, ta, paste) ==
  IF v.mode = Replace THEN replace_mode(input, ta)
  ELSE IF v.mode = Insert THEN insert_mode(input, ta)
  ELSE LET r == command_match(v, input, ta, paste)
       IN IF ~r.fall /\ r.tr # Nop THEN r
          ELSE LET d == pending_operator(v, r.ta)
               IN Ret(d.tr, d.ta, r.out \o d.out)

\* Vim::transition: the Transition returned, the buffer left, the actions sent.
transition(v, input, ta, paste) ==
  IF v.mode = Replace THEN replace_mode(input, ta)
  ELSE IF v.mode = Insert THEN insert_mode(input, ta)
  ELSE LET r == command_match(v, input, ta, paste)
       IN IF ~r.fall THEN r
          ELSE LET d == pending_operator(v, r.ta)
               IN Ret(d.tr, d.ta, r.out \o d.out)

\* ------------------------------------------------- Editor (editor.rs)
\* An editor is [vim, command_tx, textarea]: command_tx says whether the editor
\* holds a sender.

EditorNew(undo_count) ==
  [vim |-> VimNew(Normal), command_tx |-> FALSE, textarea |-> EmptyText(undo_count)]

Send(ed, action) == IF ed.command_tx THEN <<action>> ELSE <<>>

IsSubmit(input) == input = Key("Enter", ALT) \/ input = Key("Enter", CONTROL)

\* Lines 117-124: the engine state the Transition leaves.
apply_transition(v, tr) ==
  IF tr.kind = "Mode" /\ v.mode # tr.mode THEN VimNew(tr.mode)
  ELSE IF tr.kind = "Pending" THEN with_pending(v, tr.key)
  ELSE v

\* transition_vim_state with the submit keys not gated on the query task.
transition_vim_state_submits_always(ed, input, query_task, paste) ==
  IF IsSubmit(input) THEN
    IF ed.command_tx
      THEN [ed |-> [ed EXCEPT !.vim = vim_register_action_handler(VimNew(Normal),
                                                                  ed.command_tx)],
            out |-> <<[action |-> "Query", text |-> ed.textarea.text]>>]
      ELSE [ed |-> ed, out |-> <<>>]
  ELSE IF input = Key("Tab", NONE) /\ ed.vim.mode # Insert
    THEN [ed |-> ed, out |-> Send(ed, [action |-> "CycleFocusForwards"])]
  ELSE IF input = Key("Tab", SHIFT) /\ ed.vim.mode # Insert
    THEN [ed |-> ed, out |-> Send(ed, [action |-> "CycleFocusBackwards"])]
  ELSE IF IsC(input, "c") /\ ed.vim.mode = Normal
    THEN [ed |-> ed, out |-> Send(ed, [action |-> "Quit"])]
  ELSE IF Is(input, "q") /\ ed.vim.mode = Normal
    THEN [ed |-> ed, out |-> Send(ed, [action |-> "AbortQuery"])]
  ELSE LET new_vim_state == ed.vim
           r == transition(new_vim_state, input, ed.textarea, paste)
       IN [ed |-> [ed EXCEPT
                     !.vim = vim_register_action_handler(
                               apply_transition(new_vim_state, r.tr), ed.command_tx),
                     !.textarea = r.ta],
           out |-> r.out]

\* Editor::transition_vim_state on one key event; query_task says whether a query
\* is in flight, paste is what the system clipboard holds.  The result is the
\* editor left and the actions sent.
transition_vim_state(ed, input, query_task, paste) ==
  IF IsSubmit(input) THEN
    IF ~query_task /\ ed.command_tx
      THEN [ed |-> [ed EXCEPT !.vim = vim_register_action_handler(VimNew(Normal),
                                                                  ed.command_tx)],
            out |-> <<[action |-> "Query", text |-> ed.textarea.text]>>]
      ELSE [ed |-> ed, out |-> <<>>]
  ELSE IF input = Key("Tab", NONE) /\ ed.vim.mode # Insert
    THEN [ed |-> ed, out |-> Send(ed, [action |-> "CycleFocusForwards"])]
  ELSE IF input = Key("Tab", SHIFT) /\ ed.vim.mode # Insert
    THEN [ed |-> ed, out |-> Send(ed, [action |-> "CycleFocusBackwards"])]
  ELSE IF IsC(input, "c") /\ ed.vim.mode = Normal
    THEN [ed |-> ed, out |-> Send(ed, [action |-> "Quit"])]
  ELSE IF Is(input, "q") /\ ed.vim.mode = Normal
    THEN [ed |-> ed, out |-> Send(ed, [action |-> "AbortQuery"])]
  ELSE LET new_vim_state == ed.vim
           r == transition(new_vim_state, input, ed.textarea, paste)
       IN [ed |-> [ed EXCEPT
                     !.vim = vim_register_action_handler(
                               apply_transition(new_vim_state, r.tr), ed.command_tx),
                     !.textarea = r.ta],
           out |-> r.out]

\* Editor::transition_vim_state when the receiver of the channel is gone: every
\* send returns an error.  The arms of the editor's own keys apply ? to the
\* send (lines 87, 96, 101, 106, 111) and return the error before anything is
\* assigned; the engine's send logs the error (vim.rs:444-448) and goes on.
send_propagates(ed, input, query_task) ==
  /\ ed.command_tx
  /\ \/ IsSubmit(input) /\ ~query_task
     \/ input = Key("Tab", NONE) /\ ed.vim.mode # Insert
     \/ input = Key("Tab", SHIFT) /\ ed.vim.mode # Insert
     \/ IsC(input, "c") /\ ed.vim.mode = Normal
     \/ Is(input, "q") /\ ed.vim.mode = Normal

transition_vim_state_closed(ed, input, query_task, paste) ==
  IF send_propagates(ed, input, query_task)
    THEN [ed |-> ed, out |-> <<>>, err |-> TRUE]
    ELSE [ed |-> transition_vim_state(ed, input, query_task, paste).ed,
          out |-> <<>>, err |-> FALSE]

\* Component::register_action_handler: the engine is handed the sender the
\* editor held before this call.
register_action_handler(ed) ==
  [ed EXCEPT !.vim = vim_register_action_handler(@, ed.command_tx),
             !.command_tx = TRUE]

\* ------------------------------------------- Scrollable (scrollable.rs)

\* The largest value of the unsigned word.  u16::MAX is 65535; the word of the
\* model is narrower, so that the canvases of child() are enumerated cell by
\* cell.
U16Max == 255
\* The rows of the first, wide canvas of child().
WideCanvasHeight == 10

saturating_add(a, b) == Min(a + b, U16Max)
saturating_sub(a, b) == Max(a - b, 0)

Rect(x, y, width, height) == [x |-> x, y |-> y, width |-> width, height |-> height]
is_empty(r) == r.width = 0 \/ r.height = 0

\* A cell: its symbol and its style.  A blank cell may carry a style.
Cell(symbol, style) == [symbol |-> symbol, style |-> style]
BlankCell == Cell(" ", "reset")

\* Buffer: the area and the cells, row after row.
Buffer(area, content) == [area |-> area, content |-> content]
BufferEmpty(area) ==
  Buffer(area, [i \in 1..(area.width * area.height) |-> BlankCell])

\* get_row: the cells row * width .. (row + 1) * width of the content.  The
\* slice panics when it ends beyond the content.
get_row_in_bounds(content, row, width) == (row + 1) * width <= Len(content)
get_row(content, row, width) == [j \in 1..width |-> content[row * width + j]]

\* clamp taking y and x for the used height and width, not y + 1 and x + 1.
clamp_off_by_one(buf) ==
  LET height == buf.area.height
      width == buf.area.width
      used == { c \in (0..(width - 1)) \X (0..(height - 1)) :
                  get_row(buf.content, c[2], width)[c[1] + 1].symbol # " " }
      used_rows == { c[2] : c \in used }
      used_cols == { c[1] : c \in used }
      used_height == IF used = {} THEN 0
                     ELSE CHOOSE n \in used_rows : \A m \in used_rows : m <= n
      used_width == IF used = {} THEN 0
                    ELSE CHOOSE n \in used_cols : \A m \in used_cols : m <= n
  IN Buffer(Rect(0, 0, used_width, used_height),
            [i \in 1..(used_width * used_height) |->
               get_row(buf.content, (i - 1) \div used_width, width)
                 [((i - 1) % used_width) + 1]])

\* clamp slicing the rows it copies by the used width, not the buffer's width.
clamp_rows_of_used_width(buf) ==
  LET height == buf.area.height
      width == buf.area.width
      used == { c \in (0..(width - 1)) \X (0..(height - 1)) :
                  get_row(buf.content, c[2], width)[c[1] + 1].symbol # " " }
      used_rows == { saturating_add(c[2], 1) : c \in used }
      used_cols == { saturating_add(c[1], 1) : c \in used }
      used_height == IF used = {} THEN 0
                     ELSE CHOOSE n \in used_rows : \A m \in used_rows : m <= n
      used_width == IF used = {} THEN 0
                    ELSE CHOOSE n \in used_cols : \A m \in used_cols : m <= n
  IN Buffer(Rect(0, 0, used_width, used_height),
            [i \in 1..(used_width * used_height) |->
               get_row(buf.content, (i - 1) \div used_width, used_width)
                 [((i - 1) % used_width) + 1]])

\* clamp: the two loops take the largest y + 1 and x + 1 over the cells whose
\* symbol is not " "; the result holds the first used_width cells of the first
\* used_height rows, at the origin.
clamp(buf) ==
  LET height == buf.area.height
      width == buf.area.width
      used == { c \in (0..(width - 1)) \X (0..(height - 1)) :
                  get_row(buf.content, c[2], width)[c[1] + 1].symbol # " " }
      used_rows == { saturating_add(c[2], 1) : c \in used }
      used_cols == { saturating_add(c[1], 1) : c \in used }
      used_height == IF used = {} THEN 0
                     ELSE CHOOSE n \in used_rows : \A m \in used_rows : m <= n
      used_width == IF used = {} THEN 0
                    ELSE CHOOSE n \in used_cols : \A m \in used_cols : m <= n
  IN Buffer(Rect(0, 0, used_width, used_height),
            [i \in 1..(used_width * used_height) |->
               get_row(buf.content, (i - 1) \div used_width, width)
                 [((i - 1) % used_width) + 1]])

\* A child renderer draws a picture: cells at positions, those inside the area
\* it is given.
render_child(picture, buf) ==
  Buffer(buf.area,
         [i \in 1..(buf.area.width * buf.area.height) |->
            LET x == (i - 1) % buf.area.width
                y == (i - 1) \div buf.area.width
            IN IF \E p \in picture : p.x = x /\ p.y = y
                 THEN (CHOOSE p \in picture : p.x = x /\ p.y = y).cell
                 ELSE buf.content[i]])

ScrollableNew ==
  [child_buffer |-> BufferEmpty(Rect(0, 0, 0, 0)),
   parent_area |-> Rect(0, 0, 0, 0),
   block |-> "None",
   x_offset |-> 0,
   y_offset |-> 0,
   max_offsets |-> [max_x_offset |-> 0, max_y_offset |-> 0],
   requested_height |-> 0,
   available_height |-> 0]

\* The areas of the two canvases: wide_buf.area and buf.area.
wide_area(requested_width) ==
  Rect(0, 0, Min(U16Max \div 10, requested_width), WideCanvasHeight)
buf_area(needed, available_height) == Rect(0, 0, needed, available_height)

\* The first pass of child(): the width the picture needs.
needed_width(requested_width, picture) ==
  clamp(render_child(picture, BufferEmpty(wide_area(requested_width)))).area.width

\* The second pass: the content buffer, on a canvas of the needed width and
\* u16::MAX.saturating_div(needed_width) rows.
content_buffer(requested_width, picture) ==
  LET width == needed_width(requested_width, picture)
  IN clamp(render_child(picture, BufferEmpty(buf_area(width, U16Max \div width))))

\* child(): saturating_div panics when the first pass found no used column.
child_panics(requested_width, picture) == needed_width(requested_width, picture) = 0

\* child_passes taking the rows of the second canvas from the divisor of the
\* first.
child_passes_of_wide_rows(requested_width, picture) ==
  LET needed == needed_width(requested_width, picture)
  IN IF needed = 0
       THEN [panics |-> TRUE, buf |-> BufferEmpty(Rect(0, 0, 0, 0)), available_height |-> 0,
             needed_width |-> 0, wide_area |-> wide_area(requested_width),
             area |-> Rect(0, 0, 0, 0)]
       ELSE [panics |-> FALSE,
             buf |-> clamp(render_child(picture,
                       BufferEmpty(buf_area(needed, U16Max \div 10)))),
             available_height |-> U16Max \div 10,
             needed_width |-> needed,
             wide_area |-> wide_area(requested_width),
             area |-> buf_area(needed, U16Max \div 10)]

\* The two passes of child(): whether it panics, the content buffer, the rows
\* of the second canvas, the needed width and the areas of the two canvases.
child_passes(requested_width, picture) ==
  IF child_panics(requested_width, picture)
    THEN [panics |-> TRUE, buf |-> BufferEmpty(Rect(0, 0, 0, 0)), available_height |-> 0,
          needed_width |-> 0, wide_area |-> wide_area(requested_width),
          area |-> Rect(0, 0, 0, 0)]
    ELSE LET needed == needed_width(requested_width, picture)
         IN [panics |-> FALSE,
             buf |-> content_buffer(requested_width, picture),
             available_height |-> U16Max \div needed,
             needed_width |-> needed,
             wide_area |-> wide_area(requested_width),
             area |-> buf_area(needed, U16Max \div needed)]

\* child(), given the outcome of its two passes.
child(s, passes, requested_height) ==
  [s EXCEPT !.child_buffer = passes.buf,
            !.available_height = passes.available_height,
            !.requested_height = requested_height]

\* Block::inner for a block with all four borders; the area itself with no block.
inner_if_some(block, area) ==
  IF block = "None" THEN area
  ELSE Rect(Min(saturating_add(area.x, 1), saturating_add(area.x, area.width)),
            Min(saturating_add(area.y, 1), saturating_add(area.y, area.height)),
            saturating_sub(area.width, 2),
            saturating_sub(area.height, 2))

\* get_max_offsets taking the content's used height for the requested height.
get_max_offsets_of_used_height(s, child_buffer, parent_area, parent_block) ==
  LET render_area == inner_if_some(parent_block, parent_area)
  IN IF is_empty(render_area) THEN [max_x_offset |-> 0, max_y_offset |-> 0]
     ELSE [max_x_offset |-> saturating_sub(child_buffer.area.width, render_area.width),
           max_y_offset |-> saturating_sub(child_buffer.area.height, render_area.height)]

get_max_offsets(s, child_buffer, parent_area, parent_block) ==
  LET render_area == inner_if_some(parent_block, parent_area)
  IN IF is_empty(render_area) THEN [max_x_offset |-> 0, max_y_offset |-> 0]
     ELSE [max_x_offset |-> saturating_sub(child_buffer.area.width, render_area.width),
           max_y_offset |-> saturating_sub(s.requested_height, render_area.height)]

get_requested_child_offset(s) ==
  saturating_sub(saturating_add(s.y_offset, s.child_buffer.area.height),
                 s.available_height)

scroll(s, direction) ==
  IF direction = "Left" THEN [s EXCEPT !.x_offset = saturating_sub(@, 1)]
  ELSE IF direction = "Right"
    THEN [s EXCEPT !.x_offset = Min(saturating_add(@, 1), s.max_offsets.max_x_offset)]
  ELSE IF direction = "Up" THEN [s EXCEPT !.y_offset = saturating_sub(@, 1)]
  ELSE [s EXCEPT !.y_offset = Min(saturating_add(@, 1), s.max_offsets.max_y_offset)]

reset_scroll(s) == [s EXCEPT !.x_offset = 0, !.y_offset = 0]

block(s, b) == [s EXCEPT !.block = b]

\* Renderer::render: the rows it slices out of the content and the cells it
\* copies, each destination (x, y) with the content position it reads.  The
\* frame's buffer covers the area drawn into.
render_rows(s, area) ==
  LET render_area == inner_if_some(s.block, area)
      max_y == Min(saturating_add(render_area.y, render_area.height),
                   saturating_add(render_area.y, s.child_buffer.area.height))
  IN IF is_empty(render_area) THEN {}
     ELSE { [y |-> y,
             content_y |-> y + saturating_sub(get_requested_child_offset(s), s.y_offset)
                             - render_area.y] : y \in render_area.y..(max_y - 1) }

\* render_copies walking every column of the area, whatever the content's width.
render_copies_to_area_width(s, area) ==
  LET render_area == inner_if_some(s.block, area)
      max_x == saturating_add(render_area.x, render_area.width)
  IN { [x |-> x, y |-> r.y,
        content_x |-> x + s.x_offset - render_area.x,
        content_y |-> r.content_y] :
         x \in render_area.x..(max_x - 1), r \in render_rows(s, area) }

render_copies(s, area) ==
  LET render_area == inner_if_some(s.block, area)
      max_x == Min(saturating_add(render_area.x, render_area.width),
                   saturating_add(render_area.x, s.child_buffer.area.width))
  IN { [x |-> x, y |-> r.y,
        content_x |-> x + s.x_offset - render_area.x,
        content_y |-> r.content_y] :
         x \in render_area.x..(max_x - 1), r \in render_rows(s, area) }

\* A slice or an index beyond the content panics.
render_panics(s, area) ==
  \/ \E r \in render_rows(s, area) :
       ~get_row_in_bounds(s.child_buffer.content, r.content_y, s.child_buffer.area.width)
  \/ \E c \in render_copies(s, area) : c.content_x >= s.child_buffer.area.width

\* draw: the area and the maxima are stored, the widget is rendered, and the
\* match on the maxima renders the scrollbars.
draw_state(s, area) ==
  [s EXCEPT !.parent_area = area,
            !.max_offsets = get_max_offsets(s, s.child_buffer, area, s.block)]
\* draw_scrollbars with the vertical scrollbar in the arm of the horizontal one.
draw_scrollbars_arm_copied(max_offsets) ==
  IF max_offsets.max_x_offset = 0 /\ max_offsets.max_y_offset = 0
    THEN [vertical |-> FALSE, horizontal |-> FALSE]
  ELSE IF max_offsets.max_x_offset = 0 THEN [vertical |-> TRUE, horizontal |-> FALSE]
  ELSE IF max_offsets.max_y_offset = 0 THEN [vertical |-> TRUE, horizontal |-> FALSE]
  ELSE [vertical |-> TRUE, horizontal |-> TRUE]

draw_scrollbars(max_offsets) ==
  IF max_offsets.max_x_offset = 0 /\ max_offsets.max_y_offset = 0
    THEN [vertical |-> FALSE, horizontal |-> FALSE]
  ELSE IF max_offsets.max_x_offset = 0 THEN [vertical |-> TRUE, horizontal |-> FALSE]
  ELSE IF max_offsets.max_y_offset = 0 THEN [vertical |-> FALSE, horizontal |-> TRUE]
  ELSE [vertical |-> TRUE, horizontal |-> TRUE]

\* ------------------------------------------------------------ state machine

VARIABLES
  editor,      \* the Editor: engine state, sender, text buffer
  lastMode,    \* the mode the last key event was received in
  scrollable,  \* the Scrollable
  frame,       \* the last call on the Scrollable and what draw rendered
  trim         \* a cell grid, and the buffer clamp made of it

vars == <<editor, lastMode, scrollable, frame, trim>>
editor_vars == <<editor, lastMode>>
scroll_vars == <<scrollable, frame>>

FrameNew == [last |-> "new", vertical |-> FALSE, horizontal |-> FALSE, panicked |-> FALSE]
TrimNew == [b |-> BufferEmpty(Rect(0, 0, 0, 0)), buf |-> BufferEmpty(Rect(0, 0, 0, 0)), n |-> 0]

\* The keys offered in a mode.
KeysIn(mode) == IF mode \in {Insert, Replace} THEN TypingKeys ELSE CommandKeys

\* The inputs a key event reads besides the key: whether a query is in flight
\* (read by the submit keys) and what the system clipboard holds (read by p).
QueryTasks(input) == IF IsSubmit(input) THEN BOOLEAN ELSE {FALSE}
Pastes(input) == IF Is(input, "p") THEN ClipTexts ELSE {<<>>}

\* handle_events with Event::Key.  The application registers the action handler
\* of every component before it reads the first event.
KeyEvent(input, query_task, paste) ==
  \E r \in {transition_vim_state(editor, input, query_task, paste)} :
     /\ editor.command_tx
     /\ Len(r.ed.textarea.text) <= MaxLen
     /\ editor' = r.ed
     /\ lastMode' = editor.vim.mode
     /\ UNCHANGED <<scroll_vars, trim>>

RegisterActionHandler ==
  /\ ~editor.command_tx
  /\ editor' = register_action_handler(editor)
  /\ UNCHANGED <<lastMode, scroll_vars, trim>>

\* Spec offers every key but u and Ctrl-r.  Nothing else reads the undo history,
\* so these runs do not keep it (undo_count 0); SpecUndo keeps it.
Init ==
  /\ editor = EditorNew(0)
  /\ lastMode = Normal
  /\ scrollable = ScrollableNew
  /\ frame = FrameNew
  /\ trim = TrimNew

Next ==
  \/ \E input \in KeysIn(editor.vim.mode) :
       \E query_task \in QueryTasks(input) :
         \E paste \in Pastes(input) :
           KeyEvent(input, query_task, paste)
  \/ RegisterActionHandler

Spec == Init /\ [][Next]_vars

\* SpecUndo keeps the undo history and offers u and Ctrl-r, with the commands
\* they undo.
UndoCommandKeys ==
  { Key(c, NONE) : c \in {"i", "h", "x", "D", "r", "o", "u", "d", "w"} }
    \cup { Key("r", CONTROL) }
UndoTypingKeys == { Key("e", NONE), Key("Enter", NONE), Key("Esc", NONE) }
UndoKeysIn(mode) ==
  IF mode \in {Insert, Replace} THEN UndoTypingKeys ELSE UndoCommandKeys

InitUndo ==
  /\ editor = EditorNew(MaxUndo)
  /\ lastMode = Normal
  /\ scrollable = ScrollableNew
  /\ frame = FrameNew
  /\ trim = TrimNew

NextUndo ==
  \/ \E input \in UndoKeysIn(editor.vim.mode) : KeyEvent(input, FALSE, <<>>)
  \/ RegisterActionHandler

SpecUndo == InitUndo /\ [][NextUndo]_vars

\* SpecScroll: the calls on a Scrollable, in any order.
Filled(w, h) ==
  { [x |-> c[1], y |-> c[2], cell |-> Cell("a", "reset")] :
      c \in (0..(w - 1)) \X (0..(h - 1)) }

\* The child renderers: one that draws nothing, a table of 10 x 3, a list that
\* fills every row of any canvas, a lone cell, and a cell followed by a styled
\* blank.
Pictures ==
  { {},
    Filled(10, 3),
    Filled(1, U16Max),
    { [x |-> 3, y |-> 1, cell |-> Cell("a", "reset")] },
    { [x |-> 0, y |-> 0, cell |-> Cell("a", "reset")],
      [x |-> 2, y |-> 0, cell |-> Cell(" ", "bold")] } }
RequestedWidths == {0, 4, 10}
RequestedHeights == {3, 8}
Areas == { Rect(0, 0, 0, 0), Rect(2, 1, 6, 5), Rect(0, 0, 8, 7), Rect(0, 0, 12, 8) }
Blocks == {"None", "Bordered"}
Directions == {"Left", "Right", "Up", "Down"}

\* The passes of child() for each renderer and width, computed once.
ChildPasses ==
  [requested_width \in RequestedWidths, picture \in Pictures |->
     child_passes(requested_width, picture)]

Child(requested_width, requested_height, picture) ==
  LET passes == ChildPasses[requested_width, picture]
  IN /\ ~frame.panicked
     /\ IF passes.panics
          THEN /\ frame' = [frame EXCEPT !.last = "child", !.panicked = TRUE]
               /\ UNCHANGED scrollable
          ELSE /\ scrollable' = child(scrollable, passes, requested_height)
               /\ frame' = [frame EXCEPT !.last = "child"]
     /\ UNCHANGED <<editor_vars, trim>>

SetBlock(b) ==
  /\ ~frame.panicked
  /\ scrollable' = block(scrollable, b)
  /\ frame' = [frame EXCEPT !.last = "block"]
  /\ UNCHANGED <<editor_vars, trim>>

Draw(area) ==
  LET s == draw_state(scrollable, area)
      bars == draw_scrollbars(s.max_offsets)
  IN /\ ~frame.panicked
     /\ scrollable' = s
     /\ frame' = IF render_panics(s, area)
                   THEN [frame EXCEPT !.last = "draw", !.panicked = TRUE]
                   ELSE [last |-> "draw", vertical |-> bars.vertical,
                         horizontal |-> bars.horizontal, panicked |-> FALSE]
     /\ UNCHANGED <<editor_vars, trim>>

Scroll(direction) ==
  /\ ~frame.panicked
  /\ scrollable' = scroll(scrollable, direction)
  /\ frame' = [frame EXCEPT !.last = "scroll"]
  /\ UNCHANGED <<editor_vars, trim>>

ResetScroll ==
  /\ ~frame.panicked
  /\ scrollable' = reset_scroll(scrollable)
  /\ frame' = [frame EXCEPT !.last = "reset_scroll"]
  /\ UNCHANGED <<editor_vars, trim>>

NextScroll ==
  \/ \E requested_width \in RequestedWidths :
       \E requested_height \in RequestedHeights :
         \E picture \in Pictures : Child(requested_width, requested_height, picture)
  \/ \E b \in Blocks : SetBlock(b)
  \/ \E area \in Areas : Draw(area)
  \/ \E direction \in Directions : Scroll(direction)
  \/ ResetScroll

SpecScroll == Init /\ [][NextScroll]_vars

\* SpecClamp: clamp applied to every cell grid within the bounds.
MaxGridWidth == 2
MaxGridHeight == 2
Cells == { BlankCell, Cell(" ", "bold"), Cell("a", "reset") }
Grids(w, h) == { Buffer(Rect(0, 0, w, h), content) : content \in [1..(w * h) -> Cells] }

InitClamp ==
  /\ editor = EditorNew(0)
  /\ lastMode = Normal
  /\ scrollable = ScrollableNew
  /\ frame = FrameNew
  /\ \E w \in 0..MaxGridWidth, h \in 0..MaxGridHeight :
       \E b \in Grids(w, h) : trim = [b |-> b, buf |-> b, n |-> 0]

Clamp ==
  /\ trim.n < 2
  /\ trim' = [trim EXCEPT !.buf = clamp(@), !.n = @ + 1]
  /\ UNCHANGED <<editor_vars, scroll_vars>>

\* child() of a renderer that paints the grid at the canvas's origin.
PictureOf(b) ==
  { [x |-> c[1], y |-> c[2], cell |-> b.content[c[2] * b.area.width + c[1] + 1]] :
      c \in (0..(b.area.width - 1)) \X (0..(b.area.height - 1)) }

ChildOfGrid ==
  LET passes == child_passes(trim.b.area.width, PictureOf(trim.b))
  IN /\ frame.last = "new"
     /\ trim.n = 0
     /\ IF passes.panics
          THEN /\ frame' = [frame EXCEPT !.last = "child", !.panicked = TRUE]
               /\ UNCHANGED scrollable
          ELSE /\ scrollable' = child(scrollable, passes, trim.b.area.height)
               /\ frame' = [frame EXCEPT !.last = "child"]
     /\ UNCHANGED <<editor_vars, trim>>

NextClamp ==
  \/ Clamp
  \/ ChildOfGrid

SpecClamp == InitClamp /\ [][NextClamp]_vars

\* ------------------------------------------------------------- properties

\* One key event handled from editor state ed (no query in flight, nothing on
\* the system clipboard): the editor left, and the actions sent.
Step(ed, input) == transition_vim_state(ed, input, FALSE, <<>>)
After(ed, input) == Step(ed, input).ed

\* The key event reaches Vim::transition (the last arm of
\* Editor::transition_vim_state).
ReachesEngine(ed, input) ==
  /\ ~IsSubmit(input)
  /\ ~(input.code = "Tab" /\ input.mods \in {NONE, SHIFT} /\ ed.vim.mode # Insert)
  /\ ~(IsC(input, "c") /\ ed.vim.mode = Normal)
  /\ ~(Is(input, "q") /\ ed.vim.mode = Normal)

KeyG == Key("g", NONE)

\* C1: a buffered pending key lives for exactly one key event: once a key is
\* pending, the next key the engine processes leaves pending empty, unless that
\* key is itself buffered (then it is the pending key).  In particular g, k, g
\* with k other than g never leaves the second g with a pending g to consume.
C1_PendingLivesOneKey ==
  editor.vim.pending # <<>> =>
    \A k2 \in KeysIn(editor.vim.mode) :
      ReachesEngine(editor, k2) =>
        LET tr == transition(editor.vim, k2, editor.textarea, <<>>).tr
            left == After(editor, k2).vim.pending
        IN left = (IF tr.kind = "Pending" THEN <<k2>> ELSE <<>>)

\* C2: the pending key is cleared once consumed: after g, g (in Normal or
\* Visual) pending is empty, so a third g is only buffered again.
C2_PendingClearedByGG ==
  (IsPendingG(editor.vim) /\ editor.vim.mode \in {Normal, Visual}) =>
    LET v == After(editor, KeyG).vim
    IN v.pending = <<>> /\ transition(v, KeyG, editor.textarea, <<>>).tr = Pending(KeyG)

OperatorKeys == { Key(c, NONE) : c \in {"y", "d", "c"} }

\* The motion keys of the transition table, less the two-key gg.
MotionKeys ==
  { Key(c, NONE) : c \in {"h", "j", "k", "l", "w", "e", "b", "0", "^", "$", "G",
                          "Left", "Down", "Up", "Right"} }

\* What the transition table says motion key m does, with the selection
\* extended; in OperatorPending e is w.
Moved(m, ta) ==
  IF m.code \in {"h", "Left"} THEN move_left(ta, TRUE)
  ELSE IF m.code \in {"j", "Down"} THEN move_down(ta, TRUE)
  ELSE IF m.code \in {"k", "Up"} THEN move_up(ta, TRUE)
  ELSE IF m.code \in {"l", "Right"} THEN move_right(ta, TRUE)
  ELSE IF m.code \in {"w", "e"} THEN move_to_next_word(ta, TRUE)
  ELSE IF m.code = "b" THEN set_cursor(ta, prev_word_start(ta.text, ta.cursor), TRUE)
  ELSE IF m.code \in {"0", "^"} THEN move_to_line_start(ta, TRUE)
  ELSE IF m.code = "$" THEN move_to_line_end(ta, TRUE)
  ELSE IF m.code = "G" THEN move_to_end(ta, TRUE)
  ELSE IF m.code = "g" THEN move_to_start(ta, TRUE)
  ELSE select_line(ta)

\* The operator dispatched once on selection sel by the key event r: the copy
\* action of the selected text, the cut for d and c, the mode left.
Dispatched(op, sel, r) ==
  /\ r.ed.vim.mode = (IF op.code = "c" THEN Insert ELSE Normal)
  /\ r.out = <<CopyData(selected_text(sel))>>
  /\ r.ed.textarea = (IF op.code = "y" THEN sel
                      ELSE delete_range(sel, selection(sel)))

\* C3: the operator-pending protocol.  From Normal, y, d or c enters
\* OperatorPending(op) and leaves the buffer alone; the next motion key (h j k l,
\* the arrows, w, e, b, 0, ^, $, G, the second g of gg, or op itself for the
\* line) extends the selection by its motion and the operator is dispatched
\* once on that selection: y copies and leaves Normal, d cuts and leaves Normal,
\* c cuts and leaves Insert; the engine is never left in OperatorPending.
C3_OperatorPendingProtocol ==
  (editor.vim.mode = Normal /\ editor.command_tx) =>
    \A op \in OperatorKeys :
      LET s1 == After(editor, op)
          s2 == After(s1, KeyG)
      IN /\ s1.vim.mode = Operator(op.code)
         /\ s1.textarea = editor.textarea
         /\ \A m \in MotionKeys \cup {op} :
              Dispatched(op, Moved(m, s1.textarea), Step(s1, m))
         /\ s2.vim.mode = Operator(op.code)
         /\ s2.textarea = editor.textarea
         /\ Dispatched(op, Moved(KeyG, s2.textarea), Step(s2, KeyG))

\* The range motion m of C4 selects from the buffer ta: w, $ or the line.
RangeOf(m, ta) ==
  IF m = "w" THEN move_to_next_word(ta, TRUE)
  ELSE IF m = "$" THEN move_to_line_end(ta, TRUE)
  ELSE select_line(ta)

\* The key that asks operator op for motion m: the operator key itself for the line.
MotionKey(op, m) == IF m = "line" THEN Key(op, NONE) ELSE Key(m, NONE)

\* C4: for every buffer and cursor and m in {w, the line (dd / yy), $}: d then
\* m from Normal removes exactly the range m selects and ends in Normal, and the
\* text it removes and reports in its copy action is the text y then m copies
\* from the same buffer and cursor.
C4_DeleteRemovesWhatYankCopies ==
  (editor.vim.mode = Normal /\ editor.command_tx) =>
    \A m \in {"w", "line", "$"} :
      LET ta == editor.textarea
          sel == RangeOf(m, ta)
          r == selection(sel)
          removed == SubSeq(ta.text, r.start + 1, r.end)
          del == Step(After(editor, Key("d", NONE)), MotionKey("d", m))
          yank == Step(After(editor, Key("y", NONE)), MotionKey("y", m))
      IN /\ del.ed.vim.mode = Normal
         /\ del.ed.textarea.text
              = SubSeq(ta.text, 1, r.start) \o SubSeq(ta.text, r.end + 1, Len(ta.text))
         /\ del.out = <<CopyData(removed)>>
         /\ yank.out = del.out
         /\ yank.ed.textarea.text = ta.text
         /\ yank.ed.vim.mode = Normal

\* d has been pressed in Normal on a buffer where w, $ and the line select text.
C4_Witness ==
  /\ editor.vim.mode = Operator("d")
  /\ lastMode = Normal
  /\ \A m \in {"w", "line", "$"} : has_selection(RangeOf(m, editor.textarea))

KeyEsc == Key("Esc", NONE)

\* Keys tried against the match arms: those offered, and two nothing binds.
ProbeKeys == Keys \cup MotionKeys \cup { Key("F1", NONE), Key("Backspace", CONTROL) }

\* No arm of the match names the key: only the catch-all arm is left
\* (vim.rs line 352, the input arms at 380 and 428 with no character).
NoRule(v, k) ==
  IF v.mode = Replace
    THEN ~Is(k, "Esc") /\ ~IsC(k, "c") /\ TypedChar(k) = <<>>
  ELSE IF v.mode = Insert
    THEN /\ ~Is(k, "Esc") /\ ~IsC(k, "c")
         /\ ~(k.code = "Backspace" /\ k.mods \in {NONE, ALT})
         /\ ~(k.code = "Tab" /\ k.mods \in {NONE, SHIFT})
         /\ ~(k.mods = SHIFT /\ k.code \in {"Left", "Right", "Up", "Down"})
         /\ TypedChar(k) = <<>>
  ELSE /\ ~IsMotionArm(k) /\ ~IsEditArm(k) /\ ~IsScrollArm(k)
       /\ ~(k.code \in {"v", "V", "y", "d", "c"} /\ k.mods = NONE /\ v.mode = Normal)
       /\ ~((Is(k, "Esc") \/ IsC(k, "c") \/ IsN(k, "v")) /\ v.mode = Visual)
       /\ ~(k.code \in {"y", "d", "c"} /\ k.mods = NONE /\ v.mode = Visual)
       /\ ~(IsN(k, "g") /\ IsPendingG(v))
       /\ ~(IsChar(k.code) /\ k.mods = NONE /\ v.mode = Operator(k.code))
       /\ ~IsN(k, "G") /\ ~IsN(k, "S") /\ ~Is(k, "Esc")

EntersInsert(ed, k) ==
  /\ ed.vim.mode \notin {Insert, Replace}
  /\ After(ed, k).vim.mode = Insert

\* The keys C6 lists, by the mode they are pressed in.
InsertEntering(mode) ==
  IF mode = Normal THEN { Key(c, NONE) : c \in {"i", "a", "A", "I", "o", "O", "C", "S"} }
  ELSE IF mode = Visual THEN { Key("c", NONE) }
  ELSE IF mode = Operator("c") THEN MotionKeys \cup { Key("c", NONE) }
  ELSE {}

\* C6 (as stated): for every key that enters Insert (i a A I o O C S, the
\* Visual c, c and a motion), from any reachable state, Esc pressed right after
\* leaves Normal, the selection collapsed to the cursor, and the content the
\* buffer had before the entering key.
C6_EscRestoresContent ==
  \A k \in InsertEntering(editor.vim.mode) :
    EntersInsert(editor, k) =>
      LET s2 == After(After(editor, k), KeyEsc)
      IN /\ s2.vim.mode = Normal
         /\ ~has_selection(s2.textarea)
         /\ s2.textarea.text = editor.textarea.text

\* C6 (amended): for every key that enters Insert, Esc pressed right after
\* leaves Normal, the selection collapsed to the cursor, and the content the
\* buffer had on entering Insert; that is the content before the entering key
\* for i, a, A and I (o and O have added a line, C, S and c have cut).
C6_EscKeepsEnteredContent ==
  \A k \in CommandKeys \cup MotionKeys :
    EntersInsert(editor, k) =>
      LET s1 == After(editor, k)
          s2 == After(s1, KeyEsc)
      IN /\ s2.vim.mode = Normal
         /\ ~has_selection(s2.textarea)
         /\ s2.textarea.text = s1.textarea.text
         /\ k.code \in {"i", "a", "A", "I"} => s2.textarea.text = editor.textarea.text

\* Esc has left Insert for Normal on a buffer with text.
C6_Witness ==
  /\ lastMode = Insert
  /\ editor.vim.mode = Normal
  /\ ~has_selection(editor.textarea)
  /\ editor.textarea.text # <<>>

\* The editor after the key events of keys, in order, with "e" on the system
\* clipboard.
RECURSIVE Run(_, _)
Run(ed, keys) ==
  IF keys = <<>> THEN ed
  ELSE Run(transition_vim_state(ed, Head(keys), FALSE, <<"e">>).ed, Tail(keys))

\* The commands of C7, each ending in Normal.
MutatingCommands ==
  { <<Key(c, NONE)>> : c \in {"D", "x", "X", "p"} }
    \cup { <<Key(c, NONE), KeyEsc>> : c \in {"C", "o", "O", "S"} }
    \cup { <<Key("r", NONE), Key("e", NONE)>>, <<Key("r", NONE), Key("Enter", NONE)>> }
    \cup { <<Key("d", NONE), m>> : m \in MotionKeys \cup {Key("d", NONE)} }
    \cup { <<Key("c", NONE), m, KeyEsc>> : m \in MotionKeys \cup {Key("c", NONE)} }

\* C7: after a command that changes the buffer from Normal (D C x X p o O S, r
\* and a character, d or c and a motion), one u in Normal restores the content
\* and the cursor position held before the command, and one Ctrl-r after that
\* u restores the changed content.
C7_UndoRestores ==
  (editor.vim.mode = Normal /\ editor.command_tx) =>
    \A cmd \in MutatingCommands :
      LET s1 == Run(editor, cmd)
          s2 == After(s1, Key("u", NONE))
          s3 == After(s2, Key("r", CONTROL))
      IN s1.textarea.text # editor.textarea.text =>
           /\ s2.vim.mode = Normal
           /\ s2.textarea.text = editor.textarea.text
           /\ s2.textarea.cursor = editor.textarea.cursor
           /\ s3.textarea.text = s1.textarea.text

ScrollKeys ==
  { Key(c, CONTROL) : c \in {"e", "y", "d", "u", "f", "b"} }
    \cup { Key("PageDown", NONE), Key("PageUp", NONE) }

\* C8: in every mode the scroll keys (Ctrl-e, Ctrl-y, Ctrl-d, Ctrl-u, Ctrl-f,
\* PageDown, Ctrl-b, PageUp) only scroll: the mode after the key is the mode
\* before it, no operator is dispatched and the buffer text is unchanged.
C8_ScrollOnlyScrolls ==
  \A k \in ScrollKeys :
    LET r == Step(editor, k)
    IN /\ r.ed.vim.mode = editor.vim.mode
       /\ r.out = <<>>
       /\ r.ed.textarea.text = editor.textarea.text

\* C9: in Replace a printable character or Enter replaces the one character
\* under the cursor, at every cursor position, the end of a line and of the
\* buffer included: the buffer keeps its number of characters and every other
\* character, and the mode becomes Normal; Esc and Ctrl-c make the mode Normal
\* and leave the buffer unchanged.
C9_ReplaceOneCharacter ==
  editor.vim.mode = Replace =>
    /\ \A k \in { Key("e", NONE), Key("Enter", NONE) } :
         LET s1 == After(editor, k)
             old == editor.textarea.text
             new == s1.textarea.text
             at == editor.textarea.cursor + 1
         IN /\ s1.vim.mode = Normal
            /\ Len(new) = Len(old)
            /\ \A i \in 1..Len(old) :
                 new[i] = (IF i = at THEN TypedChar(k)[1] ELSE old[i])
    /\ \A k \in { KeyEsc, Key("c", CONTROL) } :
         /\ After(editor, k).vim.mode = Normal
         /\ After(editor, k).textarea = editor.textarea

\* C10: in Insert every key event carrying a printable character or Enter,
\* other than the bound keys (Esc, Ctrl-c, Backspace, Tab, Shift+arrow), inserts
\* that character (a line break for Enter) at the cursor whatever its modifier,
\* Shift included, and the mode stays Insert; Esc and Ctrl-c are the only keys
\* for which Vim::transition leaves Insert.
C10_InsertTypesEveryCharacter ==
  editor.vim.mode = Insert =>
    \A k \in ProbeKeys :
      LET r == transition(editor.vim, k, editor.textarea, <<>>)
          ta == editor.textarea
          sel == selection(ta)
      IN /\ (TypedChar(k) # <<>> /\ ~IsC(k, "c")) =>
              /\ r.tr = Nop
              /\ r.ta.text = InsertAt(RemoveRange(ta.text, sel.start, sel.end),
                                      sel.start, TypedChar(k))
         /\ r.tr # Nop => (Is(k, "Esc") \/ IsC(k, "c"))

CommandModes == { Normal, Visual, Operator("y"), Operator("d"), Operator("c") }

\* C11: from every mode and every reachable buffer state, one Esc key event
\* leaves the engine in Normal with the selection collapsed to the cursor.
C11_EscLeavesNormalCollapsed ==
  LET s == After(editor, KeyEsc)
  IN /\ s.vim.mode = Normal
     /\ ~has_selection(s.textarea)

KeyX == Key("x", NONE)

\* C12: once the action handler is registered with a live sender, every x
\* processed in Normal, Visual or OperatorPending, the first key event the
\* editor receives included, sends exactly one copy action carrying the
\* selected text (the character right of the cursor when nothing was selected),
\* cuts that text and leaves Normal.
C12_CutReportsSelection ==
  (editor.command_tx /\ editor.vim.mode \in CommandModes) =>
    LET ta == editor.textarea
        sel == IF has_selection(ta) THEN ta ELSE move_right(ta, TRUE)
        r == Step(editor, KeyX)
    IN /\ r.out = <<CopyData(selected_text(sel))>>
       /\ r.ed.textarea.text
            = RemoveRange(ta.text, selection(sel).start, selection(sel).end)
       /\ r.ed.vim.mode = Normal

KeyA == Key("a", NONE)

\* C13: a pressed in OperatorPending(d) or OperatorPending(y) collapses the
\* selection, moves the cursor right and returns Nop: the mode stays the same
\* OperatorPending(op), no copy action is sent and nothing is cut or copied;
\* pressed in Normal or OperatorPending(c), a collapses the selection, moves
\* right one and enters Insert.
C13_AroundIsNop ==
  LET ta == editor.textarea
      r == Step(editor, KeyA)
      moved == /\ r.ed.textarea.text = ta.text
               /\ ~has_selection(r.ed.textarea)
               /\ r.ed.textarea.cursor = Min(ta.cursor + 1, Len(ta.text))
               /\ r.out = <<>>
  IN /\ editor.vim.mode \in {Operator("d"), Operator("y")} =>
          /\ transition(editor.vim, KeyA, ta, <<>>).tr = [kind |-> "Nop"]
          /\ r.ed.vim.mode = editor.vim.mode
          /\ moved
     /\ editor.vim.mode \in {Normal, Operator("c")} =>
          /\ r.ed.vim.mode = Insert
          /\ moved

\* a has been pressed while d waited for its motion: the operator still waits,
\* the cursor has moved and nothing is selected.
C13_Witness ==
  /\ lastMode = Operator("d")
  /\ editor.vim.mode = Operator("d")
  /\ editor.vim.pending = <<>>
  /\ editor.textarea.cursor > 0
  /\ ~has_selection(editor.textarea)

\* C14: g, g pressed in Normal or Visual moves the cursor to the start of the
\* buffer, extending the selection iff the mode is not Normal, and leaves the
\* mode unchanged; the first g alone moves nothing and is only buffered.
C14_GGMovesToStart ==
  editor.vim.mode \in {Normal, Visual} =>
    LET ta == editor.textarea
        s1 == After(editor, KeyG)
        s2 == After(s1, KeyG)
    IN /\ s1.textarea = ta
       /\ s1.vim.pending = <<KeyG>>
       /\ s1.vim.mode = editor.vim.mode
       /\ s2.vim.mode = editor.vim.mode
       /\ s2.textarea.cursor = 0
       /\ s2.textarea.anchor = (IF editor.vim.mode = Normal THEN 0 ELSE ta.anchor)
       /\ s2.textarea.text = ta.text

\* A draw has returned: the state is the one following it.
Drawn == frame.last = "draw" /\ ~frame.panicked

\* C15: the offsets are clamped again on redraw: whatever child, draw, scroll
\* and reset_scroll calls came before, with any parent rectangle and content
\* size, every state following a draw has x_offset <= max_x_offset and
\* y_offset <= max_y_offset, the maxima being those of that draw.
C15_OffsetsClampedOnDraw ==
  Drawn =>
    /\ scrollable.x_offset <= scrollable.max_offsets.max_x_offset
    /\ scrollable.y_offset <= scrollable.max_offsets.max_y_offset

\* The Scrollable after n calls of scroll(direction).
RECURSIVE Scrolled(_, _, _)
Scrolled(s, direction, n) ==
  IF n = 0 THEN s ELSE Scrolled(scroll(s, direction), direction, n - 1)

Dist(a, b) == IF a < b THEN b - a ELSE a - b

\* The width and height inside the block's border.
InnerWidth(s) ==
  IF s.block = "None" THEN s.parent_area.width ELSE Max(0, s.parent_area.width - 2)
InnerHeight(s) ==
  IF s.block = "None" THEN s.parent_area.height ELSE Max(0, s.parent_area.height - 2)

\* C16: scrolling saturates and never wraps: scroll(Left) and scroll(Up) at
\* offset 0 leave 0, scroll(Right) and scroll(Down) never raise an offset above
\* its maximum, and each call changes only the offset of its own axis, by at
\* most 1.  After a draw of content wider than the inner width by d columns,
\* max_x_offset = d and d + 5 calls of scroll(Right) from x_offset 0 give d.
C16_ScrollSaturates ==
  LET s == scrollable
      d == s.child_buffer.area.width - InnerWidth(s)
  IN /\ s.x_offset = 0 => scroll(s, "Left").x_offset = 0
     /\ s.y_offset = 0 => scroll(s, "Up").y_offset = 0
     /\ scroll(s, "Right").x_offset <= s.max_offsets.max_x_offset
     /\ scroll(s, "Down").y_offset <= s.max_offsets.max_y_offset
     /\ \A direction \in {"Left", "Right"} :
          /\ scroll(s, direction).y_offset = s.y_offset
          /\ Dist(scroll(s, direction).x_offset, s.x_offset) <= 1
     /\ \A direction \in {"Up", "Down"} :
          /\ scroll(s, direction).x_offset = s.x_offset
          /\ Dist(scroll(s, direction).y_offset, s.y_offset) <= 1
     /\ (Drawn /\ d > 0 /\ InnerHeight(s) > 0) =>
          /\ s.max_offsets.max_x_offset = d
          /\ Scrolled(reset_scroll(s), "Right", d + 5).x_offset = d

\* The maxima of C17 for the Scrollable s.
ExpectedMaxOffsets(s) ==
  IF InnerWidth(s) = 0 \/ InnerHeight(s) = 0
    THEN [max_x_offset |-> 0, max_y_offset |-> 0]
    ELSE [max_x_offset |-> Max(0, s.child_buffer.area.width - InnerWidth(s)),
          max_y_offset |-> Max(0, s.requested_height - InnerHeight(s))]

\* Content of used size 10 x 3 in an inner area of 6 x 5.
TableInSmallArea(s) ==
  /\ s.child_buffer.area.width = 10 /\ s.child_buffer.area.height = 3
  /\ InnerWidth(s) = 6 /\ InnerHeight(s) = 5

\* C17 (as stated): after each draw max_x_offset = max(0, content width - inner
\* width) and max_y_offset = max(0, requested height - inner height), both 0
\* when the inner rectangle is empty; content of used size 10 x 3 drawn into an
\* inner area of 6 x 5 gives max_x_offset = 4 and max_y_offset = 0.
C17_MaxOffsets ==
  Drawn =>
    /\ scrollable.max_offsets = ExpectedMaxOffsets(scrollable)
    /\ TableInSmallArea(scrollable) =>
         scrollable.max_offsets = [max_x_offset |-> 4, max_y_offset |-> 0]

\* C17 (amended): the same maxima after each draw; content of used size 10 x 3
\* drawn into an inner area of 6 x 5 gives max_x_offset = 4, and max_y_offset
\* = 0 when the requested height is at most 5 (the requested height, not the
\* used height 3, decides the vertical maximum).
C17_MaxOffsetsOfRequestedHeight ==
  Drawn =>
    /\ scrollable.max_offsets = ExpectedMaxOffsets(scrollable)
    /\ TableInSmallArea(scrollable) =>
         /\ scrollable.max_offsets.max_x_offset = 4
         /\ scrollable.requested_height <= 5 => scrollable.max_offsets.max_y_offset = 0

\* The table of 10 x 3 has been drawn into an inner area of 6 x 5, with a
\* requested height of 3.
C17_Witness ==
  /\ Drawn
  /\ TableInSmallArea(scrollable)
  /\ scrollable.requested_height = 3
  /\ scrollable.max_offsets = [max_x_offset |-> 4, max_y_offset |-> 0]

\* C18: on every draw the vertical scrollbar is rendered iff max_y_offset > 0
\* and the horizontal one iff max_x_offset > 0: both when both maxima are
\* positive, neither when both are 0.
C18_ScrollbarsFollowMaxima ==
  Drawn =>
    /\ frame.vertical <=> scrollable.max_offsets.max_y_offset > 0
    /\ frame.horizontal <=> scrollable.max_offsets.max_x_offset > 0

\* A draw has rendered both scrollbars.
C18_Witness ==
  /\ Drawn
  /\ frame.vertical /\ frame.horizontal
  /\ scrollable.max_offsets.max_x_offset > 0
  /\ scrollable.max_offsets.max_y_offset > 0

\* C19: trimming is idempotent: for every cell grid b, clamp(clamp(b)) is
\* clamp(b), in area (origin, width, height) and in every cell.
C19_ClampIdempotent ==
  trim.n >= 1 =>
    /\ clamp(trim.buf).area = trim.buf.area
    /\ \A i \in 1..(trim.buf.area.width * trim.buf.area.height) :
         clamp(trim.buf).content[i] = trim.buf.content[i]
    /\ Len(clamp(trim.buf).content) = Len(trim.buf.content)

\* A grid that lost a row or a column to the first clamp has been clamped twice.
C19_Witness ==
  /\ trim.n = 2
  /\ trim.buf.area # trim.b.area
  /\ ~is_empty(trim.buf.area)

\* The cell at column x, row y of a buffer.
CellAt(b, x, y) == b.content[y * b.area.width + x + 1]
Positions(b) == (0..(b.area.width - 1)) \X (0..(b.area.height - 1))
NonBlank(b) == { c \in Positions(b) : CellAt(b, c[1], c[2]).symbol # " " }

\* C20: for every cell grid b, clamp(b) is the used bounding box at the origin:
\* its width is 1 + the largest column index of a non-blank cell, its height
\* 1 + the largest row index of one (0 x 0 when every cell is blank), and its
\* cell at (x, y) is the cell at (x, y) of b for every position inside it; so
\* the result has no trailing all-blank row or column.
C20_ClampIsUsedBoundingBox ==
  /\ trim.n = 1 =>
    LET b == trim.b
        r == trim.buf
    IN /\ r.area.x = 0 /\ r.area.y = 0
       /\ NonBlank(b) = {} => (r.area.width = 0 /\ r.area.height = 0)
       /\ \A c \in NonBlank(b) : c[1] < r.area.width /\ c[2] < r.area.height
       /\ NonBlank(b) # {} =>
            /\ \E c \in NonBlank(b) : c[1] + 1 = r.area.width
            /\ \E c \in NonBlank(b) : c[2] + 1 = r.area.height
       /\ Len(r.content) = r.area.width * r.area.height
       /\ \A c \in Positions(r) : CellAt(r, c[1], c[2]) = CellAt(b, c[1], c[2])
  /\ (frame.last = "child" /\ ~frame.panicked) =>
       LET cb == scrollable.child_buffer
       IN /\ ~is_empty(cb.area)
          /\ Len(cb.content) = cb.area.width * cb.area.height
          /\ \E c \in NonBlank(cb) : c[1] + 1 = cb.area.width
          /\ \E c \in NonBlank(cb) : c[2] + 1 = cb.area.height

\* A grid with a trailing blank row and a trailing blank column has been clamped.
C20_Witness ==
  /\ trim.n = 1
  /\ frame.last = "child" /\ ~frame.panicked
  /\ scrollable.child_buffer.area.width < trim.b.area.width
  /\ 0 < trim.buf.area.width /\ trim.buf.area.width < trim.b.area.width
  /\ 0 < trim.buf.area.height /\ trim.buf.area.height < trim.b.area.height

\* C21: the content buffer builder never fails: for every requested width
\* (0 included), every requested height and every child renderer (one that
\* draws no non-blank cell included), child completes and leaves a content
\* buffer, 0 x 0 when nothing non-blank was rendered, on which draw and scroll
\* can still be called.
C21_ChildNeverFails ==
  /\ frame.last = "child" => ~frame.panicked
  /\ \A requested_width \in RequestedWidths, picture \in Pictures :
       LET passes == ChildPasses[requested_width, picture]
       IN /\ ~passes.panics
          /\ (\A p \in picture : p.cell.symbol = " ") =>
               passes.buf.area = Rect(0, 0, 0, 0)

\* C22: a failed send (no live consumer) is never fatal to the editing session:
\* for every key event and every mode, with the receiver gone
\* Editor::transition_vim_state still returns success and leaves mode, pending
\* key and buffer in a state from which further keys are processed.
C22_FailedSendNotFatal ==
  \A input \in Keys : \A query_task \in QueryTasks(input) :
    LET r == transition_vim_state_closed(editor, input, query_task, <<>>)
    IN /\ ~r.err
       /\ \A next \in Keys :
            ~transition_vim_state_closed(r.ed, next, FALSE, <<>>).err

\* The destination cells of the inner area that lie in the window: the rows
\* below min(inner height, content height) and the columns below min(inner
\* width, content width).
VisibleWindow(s, area) ==
  LET inner == inner_if_some(s.block, area)
  IN { <<x, y>> :
         x \in inner.x..(inner.x + Min(inner.width, s.child_buffer.area.width) - 1),
         y \in inner.y..(inner.y + Min(inner.height, s.child_buffer.area.height) - 1) }

\* C23: compositing writes only the visible window: Renderer::render copies
\* cells only for the destination rows below min(inner height, content height)
\* and the destination columns below min(inner width, content width) of the
\* border-reduced area; every other destination cell keeps its value, and
\* nothing is copied when the inner area is empty.
C23_RenderWritesVisibleWindow ==
  \A area \in Areas :
    LET s == draw_state(scrollable, area)
        written == { <<c.x, c.y>> : c \in render_copies(s, area) }
    IN /\ written \subseteq VisibleWindow(s, area)
       /\ ~render_panics(s, area) => written = VisibleWindow(s, area)
       /\ is_empty(inner_if_some(s.block, area)) => written = {}

\* The table of 10 x 3 has been drawn into an inner area of 6 x 5: 6 columns of
\* 3 rows were written, and the two rows below them were not.
C23_Witness ==
  /\ Drawn
  /\ TableInSmallArea(scrollable)
  /\ Cardinality(render_copies(scrollable, scrollable.parent_area)) = 18
  /\ <<InnerWidth(scrollable), InnerHeight(scrollable)>> = <<6, 5>>
  /\ scrollable.x_offset > 0

\* The used columns of a renderer's picture on the first canvas.
UsedColumns(requested_width, picture) ==
  { p.x + 1 : p \in { q \in picture : /\ q.cell.symbol # " "
                                      /\ q.x < wide_area(requested_width).width
                                      /\ q.y < wide_area(requested_width).height } }

\* C24: the two-pass sizing stays within the cell cap: the first canvas is
\* min(u16::MAX div 10, requested_width) columns by 10 rows; the second is
\* needed_width columns by available_height = u16::MAX div needed_width rows,
\* so needed_width * available_height <= u16::MAX and available_height is the
\* largest such height; needed_width is the trimmed width of the first pass,
\* and the content buffer is never higher than available_height.
C24_SizingWithinCellCap ==
  /\ (frame.last = "child" /\ ~frame.panicked) =>
       /\ scrollable.child_buffer.area.width * scrollable.available_height <= U16Max
       /\ scrollable.child_buffer.area.height <= scrollable.available_height
  /\ \A requested_width \in RequestedWidths, picture \in Pictures :
       LET passes == ChildPasses[requested_width, picture]
           n == passes.needed_width
           a == passes.available_height
       IN /\ passes.wide_area.width = Min(U16Max \div 10, requested_width)
          /\ passes.wide_area.height = 10
          /\ passes.wide_area.width * passes.wide_area.height <= U16Max
          /\ ~passes.panics =>
               /\ passes.area = Rect(0, 0, n, a)
               /\ a = U16Max \div n
               /\ n * a <= U16Max /\ n * (a + 1) > U16Max
               /\ n \in UsedColumns(requested_width, picture)
               /\ \A c \in UsedColumns(requested_width, picture) : c <= n
               /\ passes.buf.area.height <= a
               /\ passes.buf.area.width <= n

\* child has sized a renderer whose first pass was cut to the requested width:
\* the table of 10 columns, asked to fit 4.
C24_Witness ==
  /\ frame.last = "child" /\ ~frame.panicked
  /\ scrollable.child_buffer.area.width = 4
  /\ scrollable.child_buffer.area.height = 3
  /\ scrollable.available_height = U16Max \div 4

\* C25: in every state reachable by child, draw, scroll and reset_scroll calls
\* with any parent rectangle, Renderer::render reads only cells inside the
\* content buffer: for every cell it copies, content_x = x + x_offset - area.x
\* is below the content's width and content_y below its height.
C25_RenderReadsInsideContent ==
  /\ frame.last = "draw" => ~frame.panicked
  /\ \A area \in Areas :
       LET s == draw_state(scrollable, area)
       IN \A c \in render_copies(s, area) :
            /\ c.content_x < s.child_buffer.area.width
            /\ c.content_y < s.child_buffer.area.height

\* The same, for draws that find x_offset within the maximum they compute.
C25_InsideWhenOffsetsClamped ==
  \A area \in Areas :
    LET s == draw_state(scrollable, area)
    IN s.x_offset <= s.max_offsets.max_x_offset =>
         /\ ~render_panics(s, area)
         /\ \A c \in render_copies(s, area) :
              /\ c.content_x < s.child_buffer.area.width
              /\ c.content_y < s.child_buffer.area.height

\* C26: get_requested_child_offset() is max(0, y_offset + content height -
\* available_height) and never exceeds y_offset, the content height being at
\* most available_height after every child; so the row the renderer reads for
\* the destination row y is y - area.y, whatever y_offset is.
C26_RequestedChildOffset ==
  LET s == scrollable
  IN /\ get_requested_child_offset(s) =
          Max(0, s.y_offset + s.child_buffer.area.height - s.available_height)
     /\ get_requested_child_offset(s) <= s.y_offset
     /\ s.child_buffer.area.height <= s.available_height
     /\ \A area \in Areas :
          \A r \in render_rows(draw_state(s, area), area) :
            r.content_y = r.y - inner_if_some(s.block, area).y

\* The same with the sum cut at the word's largest value, as saturating_add
\* leaves it.
C26_OffsetOfSaturatedSum ==
  LET s == scrollable
  IN /\ get_requested_child_offset(s) =
          Max(0, Min(U16Max, s.y_offset + s.child_buffer.area.height)
                   - s.available_height)
     /\ get_requested_child_offset(s) <= s.y_offset
     /\ s.child_buffer.area.height <= s.available_height
     /\ \A area \in Areas :
          \A r \in render_rows(draw_state(s, area), area) :
            r.content_y = r.y - inner_if_some(s.block, area).y

SubmitKeys == { Key("Enter", ALT), Key("Enter", CONTROL) }

\* C27: the submit key (Alt-Enter or Ctrl-Enter) is gated on the query task:
\* with a query in flight it emits no action, does not reach the engine and
\* leaves mode, pending key and buffer as they are, in every mode; with no
\* query in flight and a sender registered it emits exactly one Query action
\* carrying the whole buffer text and resets the engine to Normal with no
\* pending key, the buffer text unchanged.
C27_SubmitGatedOnQueryTask ==
  \A input \in SubmitKeys :
    /\ LET r == transition_vim_state(editor, input, TRUE, <<>>)
       IN r.out = <<>> /\ r.ed = editor
    /\ editor.command_tx =>
         LET r == transition_vim_state(editor, input, FALSE, <<>>)
         IN /\ r.out = <<[action |-> "Query", text |-> editor.textarea.text]>>
            /\ r.ed.vim.mode = Normal
            /\ r.ed.vim.pending = <<>>
            /\ r.ed.textarea.text = editor.textarea.text

\* A submit key has taken the editor from Visual to Normal with its text and
\* its selection as they were.
C27_Witness ==
  /\ lastMode = Visual
  /\ editor.vim.mode = Normal
  /\ editor.vim.pending = <<>>
  /\ Len(editor.textarea.text) = MaxLen
  /\ has_selection(editor.textarea)

\* C28: Normal mode never holds a selection after a completed command: in
\* every state reached from the initial state by key events, if the mode is
\* Normal the selection is empty (after Visual y, Visual u, and y followed by a
\* motion in particular).
C28_NormalHoldsNoSelection ==
  editor.vim.mode = Normal => ~has_selection(editor.textarea)

KeyCtrlC == Key("c", CONTROL)
Quit == [action |-> "Quit"]
EmitsQuit(ed) == \E i \in DOMAIN Step(ed, KeyCtrlC).out : Step(ed, KeyCtrlC).out[i] = Quit

\* C29: Ctrl-c always leads back to Normal and then to Quit: from every mode
\* but Normal (Insert, Visual, Replace, OperatorPending) one Ctrl-c leaves the
\* editor in Normal without emitting Quit; Ctrl-c emits Quit only when the mode
\* is Normal as the key is received; so from any state the second Ctrl-c at the
\* latest emits Quit.
C29_CtrlCLeadsToQuit ==
  /\ editor.vim.mode # Normal =>
       /\ After(editor, KeyCtrlC).vim.mode = Normal
       /\ ~EmitsQuit(editor)
  /\ EmitsQuit(editor) => editor.vim.mode = Normal
  /\ editor.command_tx => (EmitsQuit(editor) \/ EmitsQuit(After(editor, KeyCtrlC)))

\* C29 (amended): the same for every mode but OperatorPending: from Insert,
\* Visual and Replace one Ctrl-c leaves the editor in Normal without emitting
\* Quit; Ctrl-c emits Quit only when the mode is Normal as the key is received;
\* so from any state outside OperatorPending the second Ctrl-c at the latest
\* emits Quit.
C29_CtrlCOutsideOperatorPending ==
  /\ editor.vim.mode \in {Insert, Visual, Replace} =>
       /\ After(editor, KeyCtrlC).vim.mode = Normal
       /\ ~EmitsQuit(editor)
  /\ EmitsQuit(editor) => editor.vim.mode = Normal
  /\ (editor.command_tx /\ ~IsOperator(editor.vim.mode)) =>
       (EmitsQuit(editor) \/ EmitsQuit(After(editor, KeyCtrlC)))

\* Ctrl-c, offered in Visual, has left the editor in Normal with the selection
\* collapsed, where the next Ctrl-c emits Quit.
C29_Witness ==
  /\ lastMode = Visual
  /\ editor.vim.mode = Normal
  /\ editor.command_tx
  /\ ~has_selection(editor.textarea)
  /\ editor.textarea.text # <<>>
  /\ EmitsQuit(editor)

==========================================================================
